---- MODULE Spec2Model ----
(***************************************************************************)
(* GenericOAuthenticator.authenticate (oauthenticator/generic.py) as a     *)
(* state machine.  Every login attempt is one run of the coroutine         *)
(* authenticate; the coroutine suspends at each `yield http_client.fetch`  *)
(* and is resumed by the arrival of the response.  Several attempts run    *)
(* interleaved on the one authenticator object, whose configuration        *)
(* (the traitlets of the class) is read-only during the attempts.          *)
(* The class is taken as loaded with the traits it declares, among them    *)
(* group_whitelist (a set of group names).                                 *)
(*                                                                         *)
(* An action is one run of the coroutine between two suspension points:    *)
(*   Authenticate      lines 89-124, the call up to the token fetch        *)
(*   TokenResponse     lines 124-151, resumed by the token response        *)
(*   UserdataResponse  lines 151-173, resumed by the userdata response;    *)
(*                     the call of _check_group_whitelist (line 160) fails *)
(*                     before it suspends, so it is part of this step.     *)
(*                                                                         *)
(* Data representation                                                     *)
(*   - a Python dict / JSON object is a function from keys to values;      *)
(*   - Python None is the string None;                                     *)
(*   - a scope string is a sequence of one-character strings, a scope list *)
(*     is a sequence of such sequences;                                    *)
(*   - a URL and a header value are sequences of string pieces, so that   *)
(*     formatting and concatenation are computed, not assumed;             *)
(*   - an HTTP response is [code, body], a body is [json, obj].            *)
(***************************************************************************)
EXTENDS Integers, Sequences, FiniteSets, TLC

VARIABLES
    config,     \* the authenticator's configurable traits (self.*)
    call,       \* per attempt: the handler authenticate was called with
    pc,         \* per attempt: where the coroutine stands
    frame,      \* per attempt: the local variables of authenticate
    net,        \* per attempt: the requests sent and responses received, in order
    outcome,    \* per attempt: what authenticate returned or raised
    unit        \* a helper run on its own: its input and, once run, its result

vars == <<config, call, pc, frame, net, outcome, unit>>

(***************************************************************************)
(* Attempts and values                                                     *)
(***************************************************************************)
Attempts == {"a1", "a2"}

None == "None"

EmptyDict == [k \in {} |-> None]

\* dict.get(key, default)
Get(d, key, default) == IF key \in DOMAIN d THEN d[key] ELSE default

\* mutant: the entries of e only extend d, a key d holds keeps its value
UpdateMissingOnly(d, e) ==
    [k \in (DOMAIN d) \cup (DOMAIN e) |-> IF k \in DOMAIN d THEN d[k] ELSE e[k]]

\* d.update(e): the entries of e replace or extend those of d
Update(d, e) == [k \in (DOMAIN d) \cup (DOMAIN e) |-> IF k \in DOMAIN e THEN e[k] ELSE d[k]]

(***************************************************************************)
(* Configuration (class traits, lines 35-85)                               *)
(***************************************************************************)
\* A URL or header value is a sequence of string pieces; the empty string is <<>>.
TokenURL == <<"https://idp/token">>
UserdataURL == <<"https://idp/userdata">>
GroupdataURL == <<"https://idp/groups">>

ExtraParamsChoices ==
    { EmptyDict,
      [grant_type |-> "password", audience |-> "hub"] }

WhitelistChoices == { {}, {"x"}, {"admins", "y"} }

Configs ==
    [ token_url       : {<<>>, TokenURL},
      userdata_url    : {<<>>, UserdataURL},
      groupdata_url   : {<<>>, GroupdataURL},
      extra_params    : ExtraParamsChoices,
      username_key    : {"username"},
      userdata_params : {EmptyDict},
      userdata_method : {"GET"},
      tls_verify      : {TRUE},
      client_id       : {"hub-id"},
      client_secret   : {"hub-secret"},
      group_whitelist : WhitelistChoices ]

(***************************************************************************)
(* What the host and the provider can hand to an attempt                   *)
(***************************************************************************)
CodeOf == [a1 |-> "code-1", a2 |-> "code-2"]
AccessTokenOf == [a1 |-> "at-1", a2 |-> "at-2"]
RefreshTokenOf == [a1 |-> "rt-1", a2 |-> "rt-2"]
UserOf == [a1 |-> "alice", a2 |-> "bob"]

\* The query arguments of the callback request: code absent, empty, or present.
HandlerArgs(a) == { EmptyDict, [code |-> ""], [code |-> CodeOf[a]] }

\* self.get_callback_url(handler)
CallbackURL == "https://hub/oauth_callback"

StrVal(chars) == [t |-> "str", chars |-> chars]
ListVal(items) == [t |-> "list", items |-> items]

JsonBody(obj) == [json |-> TRUE, obj |-> obj]
NotJsonBody == [json |-> FALSE]
Response(code, body) == [code |-> code, body |-> body]

TokenObjects(a) ==
    { [access_token |-> AccessTokenOf[a], token_type |-> "Bearer",
       refresh_token |-> RefreshTokenOf[a], scope |-> StrVal(<<"r", " ", "w">>)],
      [access_token |-> AccessTokenOf[a], token_type |-> "bearer",
       scope |-> ListVal(<< <<"r">>, <<"w">> >>)],
      [access_token |-> AccessTokenOf[a], token_type |-> "Bearer"],
      [token_type |-> "Bearer", refresh_token |-> RefreshTokenOf[a]],
      [access_token |-> AccessTokenOf[a]] }

TokenResponses(a) ==
    { Response(200, JsonBody(o)) : o \in TokenObjects(a) }
      \cup { Response(200, NotJsonBody),
             Response(400, JsonBody([error |-> "invalid_grant"])),
             Response(599, NotJsonBody) }

UserObjects(a) ==
    { [username |-> UserOf[a], groups |-> <<"x", "y">>],
      [username |-> UserOf[a], email |-> "u@example.org"],
      [username |-> ""],
      [username |-> None],
      [email |-> "u@example.org"] }

UserdataResponses(a) ==
    { Response(200, JsonBody(o)) : o \in UserObjects(a) }
      \cup { Response(200, NotJsonBody),
             Response(403, JsonBody([username |-> UserOf[a]])),
             Response(599, NotJsonBody) }

(***************************************************************************)
(* Library calls used by authenticate                                      *)
(***************************************************************************)
\* tornado RequestHandler.get_argument(name) without default: raises
\* MissingArgumentError when the argument is absent, returns "" when empty.
HasArgument(args, name) == name \in DOMAIN args

\* Python truthiness of the values that occur here
Falsy(v) == v \in {None, ""}

\* base64.b64encode(bytes(s, "utf8")).decode("utf8")
B64(s) == <<"b64(">> \o s \o <<")">>

\* urllib.parse.urlencode(params): the key=value fields of the form body
Urlencode(params) == { <<k, params[k]>> : k \in DOMAIN params }

RECURSIVE QueryString(_, _)
QueryString(args, keys) ==
    IF keys = {} THEN <<>>
    ELSE LET k == CHOOSE x \in keys : TRUE
         IN  <<"&", k, "=", args[k]>> \o QueryString(args, keys \ {k})

\* tornado.httputil.url_concat(url, args)
UrlConcat(url, args) ==
    IF DOMAIN args = {} THEN url
    ELSE url \o <<"?">> \o Tail(QueryString(args, DOMAIN args))

\* mutant: only the lack of a response raises, an error status is handed back
FetchRaisesNoResponseOnly(resp) == resp.code = 599

\* AsyncHTTPClient.fetch raises HTTPError for code 599 (no response) and for
\* every status outside 2xx.
FetchRaises(resp) == resp.code < 200 \/ resp.code > 299

\* json.loads raises ValueError on a body that is not JSON
JsonLoadsRaises(resp) == ~resp.body.json

\* str.split(sep) with an explicit separator
RECURSIVE Split(_, _)
Split(s, sep) ==
    IF \A i \in 1..Len(s) : s[i] # sep THEN <<s>>
    ELSE LET i == CHOOSE j \in 1..Len(s) :
                      s[j] = sep /\ \A h \in 1..(j - 1) : s[h] # sep
         IN  <<SubSeq(s, 1, i - 1)>> \o Split(SubSeq(s, i + 1, Len(s)), sep)

(***************************************************************************)
(* The pieces of authenticate                                              *)
(***************************************************************************)
\* Exceptions that can leave authenticate
MissingArgumentError == "MissingArgumentError: code"
TokenURLError == "ValueError: Please set the OAUTH2_TOKEN_URL environment variable"
UserdataURLError == "ValueError: Please set the OAUTH2_USERDATA_URL environment variable"
HTTPError == "HTTPError"
JSONDecodeError == "ValueError: not JSON"
KeyError == "KeyError"
TypeError == "TypeError: _check_group_whitelist() takes 2 positional arguments but 3 were given"
NameError == "NameError: name 'url' is not defined"
NoneTypeError == "TypeError: argument of type 'NoneType' is not iterable"

\* What authenticate has done so far
Pending == [kind |-> "pending"]
Raised(exc) == [kind |-> "raise", exc |-> exc]
\* mutant: the soft rejection is raised instead of returned
SoftRejectionRaised == [kind |-> "raise", exc |-> KeyError]
ReturnedNone == [kind |-> "None"]
Returned(value) == [kind |-> "dict", value |-> value]

\* The local variables of one run of the coroutine before it has set them
InitFrame ==
    [ code |-> None, params |-> EmptyDict, url |-> <<>>, headers |-> EmptyDict,
      access_token |-> None, refresh_token |-> None, token_type |-> None,
      scope |-> <<>>, resp_json |-> EmptyDict ]

\* mutant: the locals are kept on the shared authenticator object, where an
\* interleaved attempt finds those of the other
SharedLocals(a) == frame[CHOOSE b \in Attempts : b # a]

\* The locals an attempt reads are those of its own coroutine frame.
Locals(a) == frame[a]

\* params = dict(redirect_uri=..., code=code, grant_type=...); params.update(extra_params)
TokenParams(code, extra_params) ==
    Update([redirect_uri |-> CallbackURL, code |-> code,
            grant_type |-> "authorization_code"], extra_params)

\* mutant: the token URL is used unchecked
TokenURLUnchecked(cfg) == FALSE

\* mutant: both URLs are validated before the token exchange
AnyURLUnset(cfg) == cfg.token_url = <<>> \/ cfg.userdata_url = <<>>

\* if self.token_url: ... else: raise ValueError
TokenURLUnset(cfg) == cfg.token_url = <<>>

Headers(authorization) ==
    ("Accept" :> <<"application/json">>) @@ ("User-Agent" :> <<"JupyterHub">>)
        @@ ("Authorization" :> authorization)

\* "Basic {}".format(b64encode("{}:{}".format(client_id, client_secret)))
BasicHeaders(cfg) ==
    Headers(<<"Basic", " ">> \o B64(<<cfg.client_id, ":", cfg.client_secret>>))

\* "{} {}".format(token_type, access_token)
BearerHeaders(token_type, access_token) ==
    Headers(<<token_type, " ", access_token>>)

HTTPRequest(url, method, headers, validate_cert) ==
    [url |-> url, method |-> method, headers |-> headers, validate_cert |-> validate_cert]

TokenRequest(cfg, url, headers, params) ==
    HTTPRequest(url, "POST", headers, cfg.tls_verify) @@ ("body" :> Urlencode(params))

\* mutant: token_type is read with .get and its absence goes unnoticed
TokenKeyErrorAccessOnly(obj) == "access_token" \notin DOMAIN obj

\* resp_json['access_token'] and resp_json['token_type'] raise KeyError when absent
TokenKeyError(obj) == "access_token" \notin DOMAIN obj \/ "token_type" \notin DOMAIN obj

\* mutant: scope.split() without separator, which drops the empty pieces
NormalizeScopeWhitespace(obj) ==
    LET scope == Get(obj, "scope", StrVal(<<>>))
    IN  IF scope.t = "str"
        THEN SelectSeq(Split(scope.chars, " "), LAMBDA piece : piece # <<>>)
        ELSE scope.items

\* scope = resp_json.get('scope', ''); if isinstance(scope, str): scope = scope.split(' ')
NormalizeScope(obj) ==
    LET scope == Get(obj, "scope", StrVal(<<>>))
    IN  IF scope.t = "str" THEN Split(scope.chars, " ") ELSE scope.items

\* mutant: the userdata URL is used unchecked
UserdataURLUnchecked(cfg) == FALSE

\* if self.userdata_url: ... else: raise ValueError
UserdataURLUnset(cfg) == cfg.userdata_url = <<>>

UserdataRequest(cfg, url, headers) ==
    HTTPRequest(url, cfg.userdata_method, headers, cfg.tls_verify)

\* mutant: only the absence of the key is noticed, not an empty value
UsernameAbsent(obj, key) == key \notin DOMAIN obj

\* if not resp_json.get(self.username_key)
UsernameMissing(obj, key) == Falsy(Get(obj, key, None))

\* mutant: the whitelist is never consulted
GroupCheckSkipped(cfg) == FALSE

\* if self.group_whitelist
GroupCheckConfigured(cfg) == cfg.group_whitelist # {}

\* mutant: the helper binds its arguments and finds the user in no group
CheckGroupWhitelistDenies(args) == [kind |-> "return", value |-> FALSE]

\* def _check_group_whitelist(self, username): the parameters after self
CheckGroupWhitelistParams == <<"username">>

\* self._check_group_whitelist(username, headers): the call binds two arguments
\* to one parameter and raises TypeError; were it to bind, the body refers to
\* url (and headers, http_client), which no scope defines, and raises NameError
\* before building the request.
CheckGroupWhitelist(args) ==
    IF Len(args) # Len(CheckGroupWhitelistParams) THEN Raised(TypeError)
    ELSE Raised(NameError)

\* mutant: the refresh token of the token response is dropped
AuthResultNoRefresh(obj, key, locals) ==
    [ name |-> Get(obj, key, None),
      auth_state |-> [ access_token  |-> locals.access_token,
                       refresh_token |-> None,
                       oauth_user    |-> obj,
                       scope         |-> locals.scope ] ]

\* the dict returned on success
AuthResult(obj, key, locals) ==
    [ name |-> Get(obj, key, None),
      auth_state |-> [ access_token  |-> locals.access_token,
                       refresh_token |-> locals.refresh_token,
                       oauth_user    |-> obj,
                       scope         |-> locals.scope ] ]

\* a value returned by the helper
ReturnedBool(b) == [kind |-> "return", value |-> b]

\* Lines 182-188, the helper from the arrival of the group response on:
\*   resp_json = json.loads(...); user_groups = resp_json.get('groups')
\*   for group in self.group_whitelist: if group in user_groups: return True
\*   return False
\* With no 'groups' key user_groups is None and `group in None` raises TypeError.
CheckGroupWhitelistBody(cfg, resp) ==
    IF FetchRaises(resp) THEN Raised(HTTPError)
    ELSE IF JsonLoadsRaises(resp) THEN Raised(JSONDecodeError)
    ELSE LET resp_json == resp.body.obj
         IN  IF cfg.group_whitelist = {} THEN ReturnedBool(FALSE)
             ELSE IF "groups" \notin DOMAIN resp_json THEN Raised(NoneTypeError)
             ELSE LET user_groups == resp_json["groups"]
                  IN  ReturnedBool(\E group \in cfg.group_whitelist :
                                     \E i \in 1..Len(user_groups) :
                                         user_groups[i] = group)

(***************************************************************************)
(* State machine                                                           *)
(***************************************************************************)
\* no helper is run on its own
Idle == [op |-> "none"]

NotCalled == [called |-> FALSE]
Called(args) == [called |-> TRUE, arguments |-> args]

RequestEvent(req) == [ev |-> "request", url |-> req.url, req |-> req]
ResponseEvent(url, resp) == [ev |-> "response", url |-> url, resp |-> resp]

Init ==
    /\ config \in Configs
    /\ call = [a \in Attempts |-> NotCalled]
    /\ pc = [a \in Attempts |-> "start"]
    /\ frame = [a \in Attempts |-> InitFrame]
    /\ net = [a \in Attempts |-> <<>>]
    /\ outcome = [a \in Attempts |-> Pending]
    /\ unit = Idle

\* The coroutine of attempt a ends: it returns or raises.
Finish(a, out) ==
    /\ pc' = [pc EXCEPT ![a] = "done"]
    /\ outcome' = [outcome EXCEPT ![a] = out]

\* mutant: the request is issued a second time
FetchTwice(a, events, req, at) ==
    /\ net' = [net EXCEPT ![a] = events \o <<RequestEvent(req), RequestEvent(req)>>]
    /\ pc' = [pc EXCEPT ![a] = at]
    /\ UNCHANGED outcome

\* The coroutine of attempt a suspends at `yield http_client.fetch(req)`.
Fetch(a, events, req, at) ==
    /\ net' = [net EXCEPT ![a] = events \o <<RequestEvent(req)>>]
    /\ pc' = [pc EXCEPT ![a] = at]
    /\ UNCHANGED outcome

\* Lines 89-124: from the call of authenticate to the first yield.
Authenticate(a) ==
    /\ pc[a] = "start"
    /\ UNCHANGED <<config, unit>>
    /\ \E args \in HandlerArgs(a) :
         /\ call' = [call EXCEPT ![a] = Called(args)]
         /\ IF ~HasArgument(args, "code")
            THEN /\ Finish(a, Raised(MissingArgumentError))
                 /\ UNCHANGED <<frame, net>>
            ELSE LET code == args["code"]
                     params == TokenParams(code, config.extra_params)
                     url == config.token_url
                     headers == BasicHeaders(config)
                 IN  IF TokenURLUnset(config)
                     THEN /\ frame' = [frame EXCEPT ![a].code = code,
                                                    ![a].params = params]
                          /\ Finish(a, Raised(TokenURLError))
                          /\ UNCHANGED net
                     ELSE /\ frame' = [frame EXCEPT ![a].code = code,
                                                    ![a].params = params,
                                                    ![a].url = url,
                                                    ![a].headers = headers]
                          /\ Fetch(a, net[a],
                                   TokenRequest(config, url, headers, params),
                                   "token_fetch")

\* Lines 124-151: the token response resumes the coroutine, up to the second yield.
TokenResponse(a) ==
    /\ pc[a] = "token_fetch"
    /\ UNCHANGED <<config, call, unit>>
    /\ \E resp \in TokenResponses(a) :
         LET events == net[a] \o <<ResponseEvent(Locals(a).url, resp)>>
         IN  IF FetchRaises(resp)
             THEN /\ Finish(a, Raised(HTTPError))
                  /\ net' = [net EXCEPT ![a] = events]
                  /\ UNCHANGED frame
             ELSE IF JsonLoadsRaises(resp)
             THEN /\ Finish(a, Raised(JSONDecodeError))
                  /\ net' = [net EXCEPT ![a] = events]
                  /\ UNCHANGED frame
             ELSE LET resp_json == resp.body.obj
                  IN  IF TokenKeyError(resp_json)
                      THEN /\ Finish(a, Raised(KeyError))
                           /\ net' = [net EXCEPT ![a] = events]
                           /\ frame' = [frame EXCEPT ![a].resp_json = resp_json]
                      ELSE \* both subscripted keys are present here
                           LET access_token == Get(resp_json, "access_token", None)
                               refresh_token == Get(resp_json, "refresh_token", None)
                               token_type == Get(resp_json, "token_type", None)
                               scope == NormalizeScope(resp_json)
                               headers == BearerHeaders(token_type, access_token)
                               parsed == [frame[a] EXCEPT !.resp_json = resp_json,
                                                          !.access_token = access_token,
                                                          !.refresh_token = refresh_token,
                                                          !.token_type = token_type,
                                                          !.scope = scope,
                                                          !.headers = headers]
                           IN  IF UserdataURLUnset(config)
                               THEN /\ Finish(a, Raised(UserdataURLError))
                                    /\ net' = [net EXCEPT ![a] = events]
                                    /\ frame' = [frame EXCEPT ![a] = parsed]
                               ELSE LET url == UrlConcat(config.userdata_url,
                                                         config.userdata_params)
                                    IN  /\ frame' = [frame EXCEPT ![a] =
                                                        [parsed EXCEPT !.url = url]]
                                        /\ Fetch(a, events,
                                                 UserdataRequest(config, url, headers),
                                                 "userdata_fetch")

\* Lines 151-173 with the call of lines 175-188: the userdata response resumes
\* the coroutine, which runs to its end.
UserdataResponse(a) ==
    /\ pc[a] = "userdata_fetch"
    /\ UNCHANGED <<config, call, unit>>
    /\ \E resp \in UserdataResponses(a) :
         /\ net' = [net EXCEPT ![a] = net[a] \o <<ResponseEvent(Locals(a).url, resp)>>]
         /\ IF FetchRaises(resp)
            THEN /\ Finish(a, Raised(HTTPError))
                 /\ UNCHANGED frame
            ELSE IF JsonLoadsRaises(resp)
            THEN /\ Finish(a, Raised(JSONDecodeError))
                 /\ UNCHANGED frame
            ELSE LET resp_json == resp.body.obj
                 IN  /\ frame' = [frame EXCEPT ![a].resp_json = resp_json]
                     /\ IF UsernameMissing(resp_json, config.username_key)
                        THEN Finish(a, ReturnedNone)
                        ELSE LET username == Get(resp_json, config.username_key, None)
                                 accepted == Returned(AuthResult(resp_json,
                                                 config.username_key, Locals(a)))
                             IN  IF GroupCheckConfigured(config)
                                 THEN LET user_in_group ==
                                              CheckGroupWhitelist(<<username,
                                                                    Locals(a).headers>>)
                                      IN  IF user_in_group.kind = "raise"
                                          THEN Finish(a, user_in_group)
                                          ELSE IF ~user_in_group.value
                                          THEN Finish(a, ReturnedNone)
                                          ELSE Finish(a, accepted)
                                 ELSE Finish(a, accepted)

Next ==
    \E a \in Attempts : Authenticate(a) \/ TokenResponse(a) \/ UserdataResponse(a)

Spec == Init /\ [][Next]_vars

\* Every outstanding fetch is answered, by a response or by a transport
\* failure (code 599): the coroutine suspended at a yield is resumed.
FairSpec ==
    /\ Spec
    /\ \A a \in Attempts :
          WF_vars(TokenResponse(a)) /\ WF_vars(UserdataResponse(a))

(***************************************************************************)
(* The helper _check_group_whitelist from line 182 on, run on its own for  *)
(* every whitelist and every answer of the group endpoint                  *)
(***************************************************************************)
MaxGroups == 2

GroupNames == {"x", "y", "admins"}

RECURSIVE SeqsUpTo(_, _)
\* the sequences over `alphabet` of length at most n
SeqsUpTo(alphabet, n) ==
    IF n = 0 THEN { <<>> }
    ELSE LET shorter == SeqsUpTo(alphabet, n - 1)
         IN  shorter \cup { Append(q, c) : q \in shorter, c \in alphabet }

GroupObjects ==
    { [groups |-> g] : g \in SeqsUpTo(GroupNames, MaxGroups) }
      \cup { [member |-> "none"] }

GroupResponses ==
    { Response(200, JsonBody(o)) : o \in GroupObjects }
      \cup { Response(200, NotJsonBody), Response(599, NotJsonBody) }

\* a configuration with every URL set
DefaultConfig ==
    [ token_url       |-> TokenURL,
      userdata_url    |-> UserdataURL,
      groupdata_url   |-> GroupdataURL,
      extra_params    |-> EmptyDict,
      username_key    |-> "username",
      userdata_params |-> EmptyDict,
      userdata_method |-> "GET",
      tls_verify      |-> TRUE,
      client_id       |-> "hub-id",
      client_secret   |-> "hub-secret",
      group_whitelist |-> {} ]

\* no attempt is under way
NoAttempts ==
    /\ call = [a \in Attempts |-> NotCalled]
    /\ pc = [a \in Attempts |-> "start"]
    /\ frame = [a \in Attempts |-> InitFrame]
    /\ net = [a \in Attempts |-> <<>>]
    /\ outcome = [a \in Attempts |-> Pending]

InitGroups ==
    /\ NoAttempts
    /\ \E w \in (SUBSET GroupNames) \ {{}} :
          config = [DefaultConfig EXCEPT !.group_whitelist = w]
    /\ \E resp \in GroupResponses :
          unit = [op |-> "group_check", resp |-> resp, ran |-> FALSE, result |-> Pending]

RunGroupCheck ==
    /\ unit.op = "group_check"
    /\ ~unit.ran
    /\ unit' = [unit EXCEPT !.ran = TRUE,
                            !.result = CheckGroupWhitelistBody(config, unit.resp)]
    /\ UNCHANGED <<config, call, pc, frame, net, outcome>>

NextGroups == RunGroupCheck

SpecGroups == InitGroups /\ [][NextGroups]_vars

(***************************************************************************)
(* The scope normalization of lines 131-133, run on its own for every      *)
(* scope value of a token response                                         *)
(***************************************************************************)
MaxScopeLen == 4
MaxScopeItems == 2

ScopeChars == {"r", "w", " "}
ScopeItems == { <<>>, <<"r">>, <<"r", " ", "w">> }

ScopeValues ==
    { StrVal(chars) : chars \in SeqsUpTo(ScopeChars, MaxScopeLen) }
      \cup { ListVal(items) : items \in SeqsUpTo(ScopeItems, MaxScopeItems) }

ScopeTokenObjects ==
    { [access_token |-> "at-1", token_type |-> "Bearer", scope |-> v] :
        v \in ScopeValues }
      \cup { [access_token |-> "at-1", token_type |-> "Bearer"] }

InitScope ==
    /\ NoAttempts
    /\ config = DefaultConfig
    /\ \E obj \in ScopeTokenObjects :
          unit = [op |-> "scope", obj |-> obj, ran |-> FALSE, scope |-> <<>>]

RunNormalizeScope ==
    /\ unit.op = "scope"
    /\ ~unit.ran
    /\ unit' = [unit EXCEPT !.ran = TRUE, !.scope = NormalizeScope(unit.obj)]
    /\ UNCHANGED <<config, call, pc, frame, net, outcome>>

NextScope == RunNormalizeScope

SpecScope == InitScope /\ [][NextScope]_vars

(***************************************************************************)
(* The token request of lines 93-122, built on its own for every           *)
(* extra_params mapping over the mandatory keys and one more               *)
(***************************************************************************)
ParamKeys == {"redirect_uri", "code", "grant_type", "audience"}
ParamValues == {"v", "authorization_code"}

ExtraParamsMappings == UNION { [keys -> ParamValues] : keys \in SUBSET ParamKeys }

InitParams ==
    /\ NoAttempts
    /\ \E extra \in ExtraParamsMappings :
          config = [DefaultConfig EXCEPT !.extra_params = extra]
    /\ \E code \in {"", "code-1"} :
          unit = [op |-> "token_request", code |-> code, ran |-> FALSE, body |-> {}]

RunTokenRequest ==
    /\ unit.op = "token_request"
    /\ ~unit.ran
    /\ LET params == TokenParams(unit.code, config.extra_params)
           req == TokenRequest(config, config.token_url, BasicHeaders(config), params)
       IN  unit' = [unit EXCEPT !.ran = TRUE, !.body = req["body"]]
    /\ UNCHANGED <<config, call, pc, frame, net, outcome>>

NextParams == RunTokenRequest

SpecParams == InitParams /\ [][NextParams]_vars

(***************************************************************************)
(* Observations on an attempt, used to state the properties                *)
(***************************************************************************)
Done(a) == pc[a] = "done"
Accepted(a) == outcome[a].kind = "dict"
Rejected(a) == outcome[a].kind = "None"
Errored(a) == outcome[a].kind = "raise"

Events(a) == 1..Len(net[a])
Requests(a) == { i \in Events(a) : net[a][i].ev = "request" }
RequestsTo(a, url) == { i \in Requests(a) : net[a][i].url = url }
ResponsesFrom(a, url) ==
    { i \in Events(a) : net[a][i].ev = "response" /\ net[a][i].url = url }

UserdataEndpoint == UrlConcat(UserdataURL, config.userdata_params)
TokenReqs(a) == RequestsTo(a, TokenURL)
UserdataReqs(a) == RequestsTo(a, UserdataEndpoint)
GroupReqs(a) == RequestsTo(a, GroupdataURL)

\* a 2xx response whose body is a JSON object
IsJsonOK(resp) == resp.code \in 200..299 /\ resp.body.json
JsonFrom(a, url) ==
    { net[a][i].resp.body.obj :
        i \in { j \in ResponsesFrom(a, url) : IsJsonOK(net[a][j].resp) } }

\* the token objects received that carry both required keys
GoodTokens(a) ==
    { t \in JsonFrom(a, TokenURL) : {"access_token", "token_type"} \subseteq DOMAIN t }
\* the userdata objects received
UserRecords(a) == JsonFrom(a, UserdataEndpoint)
HasName(u) == "username" \in DOMAIN u /\ u["username"] # "" /\ u["username"] # None
\* the group objects received
GroupRecords(a) == JsonFrom(a, GroupdataURL)
Elements(seq) == { seq[i] : i \in 1..Len(seq) }

(***************************************************************************)
(* Properties                                                              *)
(***************************************************************************)

\* C1: when the token exchange and the userdata fetch succeed with a non-empty
\* username and group_whitelist is non-empty, the attempt ends as the groups
\* list returned by the group endpoint decides: Accepted under the username if
\* the list shares an element with the whitelist, Rejected (None, no error) if
\* it shares none.
C1_GroupListDecides ==
    \A a \in Attempts :
        ( /\ Done(a)
          /\ config.group_whitelist # {}
          /\ config.groupdata_url # <<>>
          /\ GoodTokens(a) # {}
          /\ \E u \in UserRecords(a) : HasName(u) )
        => \E g \in GroupRecords(a) : \E u \in UserRecords(a) :
              /\ "groups" \in DOMAIN g
              /\ IF config.group_whitelist \cap Elements(g["groups"]) # {}
                 THEN Accepted(a) /\ outcome[a].value.name = u["username"]
                 ELSE Rejected(a)

\* C2: a userdata response in which the username key is absent or maps to an
\* empty or null value ends the attempt Rejected: None is returned, nothing is
\* raised and no request goes to the group endpoint, whatever the whitelist.
C2_NoUsernameRejected ==
    \A a \in Attempts :
        (Done(a) /\ \E u \in UserRecords(a) : ~HasName(u))
        => /\ Rejected(a)
           /\ GroupReqs(a) = {}
           /\ Cardinality(Requests(a)) = 2

C2_Witness ==
    \E a \in Attempts :
        /\ Done(a) /\ Rejected(a)
        /\ config.group_whitelist # {}
        /\ \E u \in UserRecords(a) : "username" \in DOMAIN u /\ u["username"] = ""

\* C3: with an empty group_whitelist and a non-empty username the attempt ends
\* Accepted without a request to the group endpoint; the result carries the
\* username, the access and refresh token of the token response (None when
\* absent), the whole userdata object and the normalized scope.
C3_AcceptedWithoutWhitelist ==
    \A a \in Attempts :
        (Done(a) /\ config.group_whitelist = {})
        => \A u \in UserRecords(a) : HasName(u) =>
              /\ Accepted(a)
              /\ GroupReqs(a) = {}
              /\ Cardinality(Requests(a)) = 2
              /\ \E t \in GoodTokens(a) :
                    outcome[a].value =
                        [ name |-> u["username"],
                          auth_state |->
                            [ access_token  |-> t["access_token"],
                              refresh_token |-> IF "refresh_token" \in DOMAIN t
                                                THEN t["refresh_token"] ELSE None,
                              oauth_user    |-> u,
                              scope         |-> NormalizeScope(t) ] ]

C3_Witness ==
    \E a \in Attempts :
        /\ Done(a) /\ Accepted(a) /\ config.group_whitelist = {}
        /\ outcome[a].value.auth_state.refresh_token = None
        /\ \E b \in Attempts :
              /\ Done(b) /\ Accepted(b)
              /\ outcome[b].value.auth_state.refresh_token = RefreshTokenOf[b]

\* C4 as stated: with an empty token URL authenticate ends Errored with the
\* configuration error and has issued no network request.
C4_TokenURLConfigError ==
    \A a \in Attempts :
        (Done(a) /\ config.token_url = <<>>)
        => outcome[a] = Raised(TokenURLError) /\ net[a] = <<>>

\* C4 amended: with an empty token URL authenticate ends Errored and has issued
\* no network request; the error is the configuration error when the callback
\* carries a code argument and the missing-argument error when it carries none.
C4_TokenURLErrored ==
    \A a \in Attempts :
        (Done(a) /\ config.token_url = <<>>)
        => /\ Errored(a)
           /\ net[a] = <<>>
           /\ outcome[a].exc =
                 IF "code" \in DOMAIN call[a].arguments
                 THEN TokenURLError ELSE MissingArgumentError

C4_Witness ==
    \E a \in Attempts :
        /\ Done(a) /\ config.token_url = <<>>
        /\ "code" \in DOMAIN call[a].arguments
        /\ outcome[a] = Raised(TokenURLError)

\* C5: a token response whose JSON object lacks access_token or token_type
\* ends the attempt Errored, and no request goes to the userdata or the group
\* endpoint.
C5_MalformedTokenErrored ==
    \A a \in Attempts :
        (\E t \in JsonFrom(a, TokenURL) :
            "access_token" \notin DOMAIN t \/ "token_type" \notin DOMAIN t)
        => /\ Done(a) /\ Errored(a)
           /\ UserdataReqs(a) = {} /\ GroupReqs(a) = {}
           /\ Cardinality(Requests(a)) = 1

C5_Witness ==
    \E a \in Attempts : \E b \in Attempts :
        /\ Done(a) /\ Done(b)
        /\ outcome[a] = Raised(KeyError) /\ outcome[b] = Raised(KeyError)
        /\ \E t \in JsonFrom(a, TokenURL) : "access_token" \notin DOMAIN t
        /\ \E t \in JsonFrom(b, TokenURL) : "token_type" \notin DOMAIN t

\* The phases of an attempt, in the order the coroutine passes through them
Rank(p) ==
    CASE p = "start" -> 0
      [] p = "token_fetch" -> 1
      [] p = "userdata_fetch" -> 2
      [] p = "done" -> 3

Ordered(a) ==
    /\ Requests(a) = TokenReqs(a) \cup UserdataReqs(a) \cup GroupReqs(a)
    /\ \A i \in UserdataReqs(a) : \E j \in ResponsesFrom(a, TokenURL) : j < i
    /\ \A i \in GroupReqs(a) : \E j \in ResponsesFrom(a, UserdataEndpoint) : j < i
    /\ Cardinality(TokenReqs(a)) <= 1
    /\ Cardinality(UserdataReqs(a)) <= 1
    /\ Cardinality(GroupReqs(a)) <= 1

NeverBackwards == \A a \in Attempts : Rank(pc'[a]) >= Rank(pc[a])

\* C6 as stated: within an attempt the userdata request follows the token
\* response, the group request follows the userdata response, no endpoint is
\* requested twice, the token endpoint is requested exactly once when the token
\* URL is set, and the phase never moves backwards.
C6_OrderedTokenOnce ==
    /\ [](\A a \in Attempts :
            /\ Ordered(a)
            /\ (pc[a] # "start" /\ config.token_url # <<>>)
                  => Cardinality(TokenReqs(a)) = 1)
    /\ [][NeverBackwards]_vars

\* C6 amended: as stated, but the token endpoint is requested exactly once when
\* the token URL is set and the callback carries a code argument; without a
\* code argument no request is sent at all.
C6_OrderedTokenOnceWithCode ==
    /\ [](\A a \in Attempts :
            /\ Ordered(a)
            /\ (pc[a] # "start" /\ config.token_url # <<>>)
                  => IF "code" \in DOMAIN call[a].arguments
                     THEN Cardinality(TokenReqs(a)) = 1
                     ELSE net[a] = <<>>)
    /\ [][NeverBackwards]_vars

C6_Witness ==
    \E a \in Attempts : \E b \in Attempts :
        /\ Done(a) /\ Cardinality(TokenReqs(a)) = 1 /\ Cardinality(UserdataReqs(a)) = 1
        /\ Len(net[a]) = 4
        /\ Done(b) /\ config.token_url # <<>> /\ net[b] = <<>>

\* C7: a dict is returned only on full success: the token response carried
\* both keys, the userdata response a non-empty username, the group check
\* passed on a received groups list if group_whitelist is non-empty, and the
\* dict holds name and the four auth_state fields, filled from those responses.
C7_ResultOnlyOnFullSuccess ==
    \A a \in Attempts :
        Accepted(a) =>
            /\ Done(a)
            /\ DOMAIN outcome[a].value = {"name", "auth_state"}
            /\ DOMAIN outcome[a].value.auth_state =
                  {"access_token", "refresh_token", "oauth_user", "scope"}
            /\ \E t \in GoodTokens(a) : \E u \in UserRecords(a) :
                  /\ HasName(u)
                  /\ outcome[a].value.name = u["username"]
                  /\ outcome[a].value.auth_state.access_token = t["access_token"]
                  /\ outcome[a].value.auth_state.oauth_user = u
            /\ config.group_whitelist # {} =>
                  \E g \in GroupRecords(a) :
                      /\ "groups" \in DOMAIN g
                      /\ config.group_whitelist \cap Elements(g["groups"]) # {}

C7_Witness ==
    \E a \in Attempts :
        /\ Accepted(a)
        /\ outcome[a].value.name = UserOf[a]
        /\ outcome[a].value.auth_state.scope = << <<"r">>, <<"w">> >>
        /\ "groups" \in DOMAIN outcome[a].value.auth_state.oauth_user

\* C8: a response that reports a transport failure (no response, or a status
\* outside 2xx) ends the attempt Errored with that failure; it is the last
\* event of the attempt, so the request is not retried and no later endpoint
\* is requested.
C8_TransportFailureErrored ==
    \A a \in Attempts : \A i \in Events(a) :
        (net[a][i].ev = "response" /\ net[a][i].resp.code \notin 200..299)
        => /\ i = Len(net[a])
           /\ Done(a)
           /\ outcome[a] = Raised(HTTPError)
           /\ Cardinality(RequestsTo(a, net[a][i].url)) = 1

C8_Witness ==
    \E a \in Attempts : \E b \in Attempts :
        /\ outcome[a] = Raised(HTTPError) /\ Len(net[a]) = 2
        /\ net[a][2].resp.code = 400
        /\ outcome[b] = Raised(HTTPError) /\ Len(net[b]) = 4
        /\ net[b][4].resp.code = 599

\* The responses attempt a has received, in order
Received(a) ==
    LET idx == { i \in Events(a) : net[a][i].ev = "response" }
        RECURSIVE Collect(_)
        Collect(i) ==
            IF i > Len(net[a]) THEN <<>>
            ELSE (IF i \in idx THEN <<net[a][i].resp>> ELSE <<>>) \o Collect(i + 1)
    IN  Collect(1)

\* What authenticate has done when run alone for a callback with the
\* arguments `args` and the responses `resps` of its endpoints so far
Alone(args, resps) ==
    IF "code" \notin DOMAIN args THEN Raised(MissingArgumentError)
    ELSE IF config.token_url = <<>> THEN Raised(TokenURLError)
    ELSE IF Len(resps) = 0 THEN Pending
    ELSE IF resps[1].code \notin 200..299 THEN Raised(HTTPError)
    ELSE IF ~resps[1].body.json THEN Raised(JSONDecodeError)
    ELSE LET t == resps[1].body.obj IN
    IF ~({"access_token", "token_type"} \subseteq DOMAIN t) THEN Raised(KeyError)
    ELSE IF config.userdata_url = <<>> THEN Raised(UserdataURLError)
    ELSE IF Len(resps) = 1 THEN Pending
    ELSE IF resps[2].code \notin 200..299 THEN Raised(HTTPError)
    ELSE IF ~resps[2].body.json THEN Raised(JSONDecodeError)
    ELSE LET u == resps[2].body.obj IN
    IF ~HasName(u) THEN ReturnedNone
    ELSE IF config.group_whitelist # {} THEN Raised(TypeError)
    ELSE Returned([ name |-> u["username"],
                    auth_state |->
                      [ access_token  |-> t["access_token"],
                        refresh_token |-> IF "refresh_token" \in DOMAIN t
                                          THEN t["refresh_token"] ELSE None,
                        oauth_user    |-> u,
                        scope         |-> NormalizeScope(t) ] ])

\* C9: attempts interleaved at their suspension points do not affect each
\* other: what an attempt has returned or raised is what it would have alone
\* on its own callback arguments and its own responses, its token request
\* carries its own code, and its userdata request the token of its own token
\* response.
C9_AttemptsIndependent ==
    \A a \in Attempts :
        /\ outcome[a] =
              IF call[a].called THEN Alone(call[a].arguments, Received(a)) ELSE Pending
        /\ \A i \in TokenReqs(a) :
              <<"code", call[a].arguments["code"]>> \in net[a][i].req.body
        /\ \A i \in UserdataReqs(a) : \E t \in GoodTokens(a) :
              net[a][i].req.headers["Authorization"] =
                  <<t["token_type"], " ", t["access_token"]>>

C9_Witness ==
    \E a \in Attempts : \E b \in Attempts :
        /\ a # b
        /\ Accepted(a)
        /\ outcome[a].value.auth_state.access_token = AccessTokenOf[a]
        /\ pc[b] = "userdata_fetch"
        /\ frame[b].access_token = AccessTokenOf[b]

\* C10: with a non-empty group_whitelist and no group data URL, an attempt
\* whose token exchange and userdata fetch succeeded with a non-empty username
\* ends Rejected (None returned), not Errored.
C10_NoGroupURLRejected ==
    \A a \in Attempts :
        ( /\ Done(a)
          /\ config.group_whitelist # {}
          /\ config.groupdata_url = <<>>
          /\ GoodTokens(a) # {}
          /\ \E u \in UserRecords(a) : HasName(u) )
        => Rejected(a)

C13_UserdataURLConfigError ==
    \A a \in Attempts :
        config.userdata_url = <<>> =>
            /\ UserdataReqs(a) = {} /\ GroupReqs(a) = {}
            /\ Requests(a) = TokenReqs(a)
            /\ ~Accepted(a) /\ ~Rejected(a)
            /\ GoodTokens(a) # {} =>
                  Done(a) /\ outcome[a] = Raised(UserdataURLError)

C13_Witness ==
    \E a \in Attempts :
        /\ config.userdata_url = <<>>
        /\ GoodTokens(a) # {}
        /\ Done(a) /\ outcome[a] = Raised(UserdataURLError)
        /\ Len(net[a]) = 2

\* C14: when the callback carries no code argument or an empty one, the token
\* exchange fails with an error and no request goes to the token endpoint.
C14_NoCodeNoTokenRequest ==
    \A a \in Attempts :
        ( /\ call[a].called
          /\ IF "code" \in DOMAIN call[a].arguments
             THEN call[a].arguments["code"] = "" ELSE TRUE )
        => TokenReqs(a) = {} /\ Errored(a)

\* the pieces joined again with the separator between them
RECURSIVE Join(_, _)
Join(pieces, sep) ==
    IF Len(pieces) = 0 THEN <<>>
    ELSE IF Len(pieces) = 1 THEN pieces[1]
    ELSE pieces[1] \o <<sep>> \o Join(Tail(pieces), sep)

\* C15: a scope that is a string is stored split at every single space, in
\* order: the pieces hold no space and joined with single spaces give the
\* string back; a scope that is a list is stored unchanged.
C15_ScopeSplitOnSpaces ==
    (unit.op = "scope" /\ unit.ran /\ "scope" \in DOMAIN unit.obj) =>
        IF unit.obj["scope"].t = "str"
        THEN /\ Len(unit.scope) >= 1
             /\ \A i \in 1..Len(unit.scope) : " " \notin Elements(unit.scope[i])
             /\ Join(unit.scope, " ") = unit.obj["scope"].chars
        ELSE unit.scope = unit.obj["scope"].items

C15_Witness ==
    /\ unit.op = "scope" /\ unit.ran /\ "scope" \in DOMAIN unit.obj
    /\ unit.obj["scope"] = StrVal(<<"r", " ", "w">>)
    /\ unit.scope = << <<"r">>, <<"w">> >>

\* C16: when the token response has no scope field, the scope stored in the
\* returned dict is the empty list.
C16_AbsentScopeEmptyList ==
    \A a \in Attempts :
        (Accepted(a) /\ \E t \in GoodTokens(a) : "scope" \notin DOMAIN t)
        => outcome[a].value.auth_state.scope = <<>>

Terminal(a) == Accepted(a) \/ Rejected(a) \/ Errored(a)

\* the attempt met a soft rejection: no username, or a group check that
\* came back without a whitelisted group
SoftRejection(a) ==
    \/ \E u \in UserRecords(a) : ~HasName(u)
    \/ \E g \in GroupRecords(a) :
          /\ "groups" \in DOMAIN g
          /\ config.group_whitelist \cap Elements(g["groups"]) = {}

\* C17: if every outstanding request is answered, an attempt that has been
\* called ends; it is in a terminal state exactly when it has ended, and then
\* stays there with the same outcome; Rejected is reached only by a soft
\* rejection, and an attempt that met a soft rejection does not end Errored.
C17_EndsInOneTerminalState ==
    /\ \A a \in Attempts : (pc[a] # "start") ~> Done(a)
    /\ [](\A a \in Attempts :
            /\ Done(a) <=> Terminal(a)
            /\ ~Done(a) => outcome[a] = Pending
            /\ Rejected(a) => SoftRejection(a)
            /\ (Done(a) /\ SoftRejection(a)) => Rejected(a))
    /\ [][\A a \in Attempts :
            Done(a) => (pc'[a] = "done" /\ outcome'[a] = outcome[a])]_vars

C17_Witness ==
    \E a \in Attempts : \E b \in Attempts :
        /\ Done(a) /\ Rejected(a) /\ SoftRejection(a) /\ Len(net[a]) = 4
        /\ Done(b) /\ Errored(b) /\ Len(net[b]) = 4

MandatoryParams == {"redirect_uri", "code", "grant_type"}

\* C18: the form body of the token request holds redirect_uri, code and
\* grant_type for every extra_params mapping; each extra_params entry is in
\* the body with its own value, replacing a mandatory one of the same key; the
\* mandatory keys extra_params does not name keep their values; the body holds
\* no other key and one value per key.
C18_TokenBodyKeepsMandatoryKeys ==
    (unit.op = "token_request" /\ unit.ran) =>
        LET extra == config.extra_params
            keys == { field[1] : field \in unit.body }
        IN  /\ MandatoryParams \subseteq keys
            /\ keys = MandatoryParams \cup DOMAIN extra
            /\ Cardinality(unit.body) = Cardinality(keys)
            /\ \A k \in DOMAIN extra : <<k, extra[k]>> \in unit.body
            /\ "redirect_uri" \notin DOMAIN extra =>
                  <<"redirect_uri", "https://hub/oauth_callback">> \in unit.body
            /\ "code" \notin DOMAIN extra => <<"code", unit.code>> \in unit.body
            /\ "grant_type" \notin DOMAIN extra =>
                  <<"grant_type", "authorization_code">> \in unit.body

C18_Witness ==
    /\ unit.op = "token_request" /\ unit.ran
    /\ DOMAIN config.extra_params = {"grant_type", "audience"}
    /\ <<"grant_type", "v">> \in unit.body
    /\ <<"audience", "v">> \in unit.body
    /\ <<"code", "code-1">> \in unit.body

\* C19: the userdata URL is validated only after the token exchange has
\* completed. With a non-empty token URL and an empty userdata URL, an attempt
\* that carries a code and has ended is Errored after exactly one request, the
\* POST to the token endpoint; and an attempt that ended with the configuration
\* error naming the userdata URL has sent that one request and received a token
\* response with both required keys, and nothing else.
C19_UserdataURLCheckedAfterToken ==
    \A a \in Attempts :
        /\ ( /\ Done(a)
             /\ config.token_url # <<>>
             /\ config.userdata_url = <<>>
             /\ HasArgument(call[a].arguments, "code") )
           => /\ Errored(a)
              /\ Cardinality(Requests(a)) = 1
              /\ Requests(a) = TokenReqs(a)
              /\ \A i \in Requests(a) :
                    net[a][i].req.method = "POST" /\ "body" \in DOMAIN net[a][i].req
        /\ outcome[a] = Raised(UserdataURLError)
           => /\ config.token_url # <<>> /\ config.userdata_url = <<>>
              /\ Len(net[a]) = 2
              /\ net[a][1].ev = "request" /\ net[a][1].url = TokenURL
              /\ net[a][2].ev = "response" /\ net[a][2].url = TokenURL
              /\ GoodTokens(a) # {}

C19_Witness ==
    \E a \in Attempts :
        /\ config.token_url # <<>> /\ config.userdata_url = <<>>
        /\ outcome[a] = Raised(UserdataURLError)
        /\ Requests(a) = {1}
        /\ net[a][1].req.method = "POST"
        /\ <<"code", call[a].arguments["code"]>> \in net[a][1].req["body"]

\* C20: whenever group_whitelist is non-empty and the userdata response yields
\* a non-empty username, the group check fails at its invocation: the attempt
\* ends Errored with the TypeError of the call, after exactly two requests
\* (token, userdata), none to the group endpoint, and is neither Accepted nor
\* Rejected.
C20_GroupCheckAlwaysErrors ==
    \A a \in Attempts :
        ( /\ config.group_whitelist # {}
          /\ \E u \in UserRecords(a) : HasName(u) )
        => /\ Done(a)
           /\ outcome[a] = Raised(TypeError)
           /\ ~Accepted(a) /\ ~Rejected(a)
           /\ Cardinality(Requests(a)) = 2
           /\ Requests(a) = TokenReqs(a) \cup UserdataReqs(a)
           /\ GroupReqs(a) = {}

C20_Witness ==
    \E a \in Attempts :
        /\ config.group_whitelist = {"admins", "y"}
        /\ \E u \in UserRecords(a) : HasName(u)
        /\ outcome[a] = Raised(TypeError)
        /\ Len(net[a]) = 4

====
